---- MODULE Spec2Model ----
(***************************************************************************)
(* Model of the andrewzc-api server.  src/unnamed/part_000 is its latest   *)
(* version: the admin session mechanism (POST /admin/login,                *)
(* requireAdminSession, POST /admin/logout, GET /admin/me), the admin      *)
(* write endpoints (POST and PUT /entities/:list/:key) it gates, the       *)
(* startup (configuration checks, ensureIndexes, app.listen) and the read  *)
(* endpoints.  src/server.js and src/unnamed/part_001 are earlier versions *)
(* with read endpoints only; the variable file says which one runs.        *)
(*                                                                         *)
(* Every handler is an async function: it runs atomically up to its next   *)
(* `await` of a store operation, and other requests run in between.  Each  *)
(* action below is one such segment of one request.  In the admin routes,  *)
(* which only part_000 has, `await connectToMongo()` returns the handle    *)
(* the startup has cached and touches no shared state, so it is folded     *)
(* into the segment before it; in the read routes, which all files have,   *)
(* it is modelled (ReadStart, ConnectDone).                                 *)
(***************************************************************************)
EXTENDS Integers, Sequences, FiniteSets

(* ---------------------------- bounds ----------------------------------- *)
MaxToken == 2        \* raw tokens makeSessionToken can draw: 1..MaxToken
MaxSessions == 2     \* session documents the store accepts in a run
MaxReq == 2          \* requests in flight at the same time
MaxTime == 2         \* the clock reads 1..MaxTime
MaxDocs == 2         \* documents in the entities collection the reads see
MaxClients == 3      \* MongoClients a process makes

(* ---------------------------- values ----------------------------------- *)
NULL == 0                          \* JavaScript null / a missing document
NoCookie == 0                      \* no admin_session cookie (undefined, "")
Tokens == 1..MaxToken
Malformed == MaxToken + 1          \* a cookie string makeSessionToken never yields
CookieValues == {NoCookie} \cup Tokens \cup {Malformed}
Reqs == 1..MaxReq

Unset == 0                         \* an environment variable that is not set
Peppers == {1, 2}                  \* values SESSION_PEPPER is configured with
Files == {"server.js", "part_001", "part_000"}   \* the versions of the server

Usernames == {"", "alice", "bob", "nobody"}   \* "" is a missing field
Passwords == {"", "pwA", "pwB"}
Bodies == {"v1", "v2"}                       \* request bodies of the entity writes
EntityKeys == {"cities/paris"}                \* the (list, key) of the route
AccountIds == {1, 2}

(* The documents the read endpoints query; a name stands for its rank in  *)
(* the sort order of the store.                                             *)
Lists == {"countries", "cities"}
Names == {1, 2}
SortKeys == {"a", "b"}
ContentDocs ==
    [list : Lists, key : SortKeys, name : Names,
     country : {"", "BE"}, city : {"", "Gent"}]
PageDocs == [key : Lists, name : Names]

(* the subsets of S with at most n elements *)
RECURSIVE SubsetsUpTo(_, _)
SubsetsUpTo(S, n) ==
    IF n = 0 THEN {{}}
    ELSE LET smaller == SubsetsUpTo(S, n - 1)
         IN  smaller \cup {T \cup {d} : T \in smaller, d \in S}

(* crypto.createHmac("sha256", key).update(msg).digest("hex"): a keyed,   *)
(* collision-free map into values that are no cookie value (a 64-digit     *)
(* hex string is never a 43-character base64url token).                    *)
HmacSha256Hex(key, msg) == key * (MaxToken + 2) + msg

(* argon2: the stored hash is not the password; verify re-derives it.      *)
Argon2Hash(password) == <<"argon2id", password>>
Argon2Verify(passwordHash, password) == passwordHash = Argon2Hash(password)

VARIABLES
    accounts,    \* collection "accounts": account _id -> document
    sessions,    \* collection "sessions": sequence of documents, _id = index
    entities,    \* collection "entities": set of documents
    touches,     \* lastSeenAt updates issued by requireAdminSession, in flight
    reqs,        \* request slot -> the request in it and its position
    now,         \* the clock read by new Date()
    issued,      \* history: what each successful Login handed out
    loggedOut,   \* history: tokens whose Logout has revoked their session
    touchFailed, \* history: lastSeenAt updates the store rejected
    pages,       \* collection "pages": set of documents
    indexes,     \* the indexes the store has
    file,        \* which version of the server the process runs
    env,         \* process.env: variable -> value, Unset when missing
    boot,        \* where the startup code of the process is
    client,      \* module variable client: the last MongoClient made, or NULL
    db,          \* module variable db: the client whose handle it is, or NULL
    clients      \* history: MongoClients this process has made

content == <<pages, indexes>>
process == <<file, env, boot, client, db, clients>>

vars == <<accounts, sessions, entities, touches, reqs, now, issued, loggedOut,
          touchFailed, content, process>>

(* const SESSION_PEPPER = process.env.SESSION_PEPPER *)
SESSION_PEPPER == env.SESSION_PEPPER

(* Mutant: the digest is keyed with a built-in key, not the configured one. *)
sessionTokenToHash_FixedKey(token) == HmacSha256Hex(1, token)

sessionTokenToHash(token) == HmacSha256Hex(SESSION_PEPPER, token)

Digests == {sessionTokenToHash(c) : c \in CookieValues}

(* the indexes ensureIndexes creates, in its order *)
IndexOrder ==
    <<"accounts.username", "sessions.sessionTokenHash", "sessions.accountId",
      "entities.list_key">>

Configured ==
    [MONGODB_URI |-> 1, MONGODB_DB |-> 1, SESSION_PEPPER |-> 1]

(* ---------------------------- requests --------------------------------- *)
IdleReq ==
    [kind |-> "none", pc |-> "idle", cookie |-> NoCookie,
     username |-> "", password |-> "", account |-> NULL, sessionToken |-> NoCookie,
     afterLogout |-> FALSE, storeFailed |-> FALSE, wroteAfterLogout |-> FALSE,
     accountDisabled |-> FALSE,
     adminAccount |-> NULL, adminSession |-> NULL, ent |-> "", body |-> "",
     route |-> "", param |-> "", handle |-> NULL, lead |-> <<>>, docs |-> <<>>,
     storeOps |-> 0,
     status |-> 0, error |-> "", message |-> "",
     cookieOp |-> "none", cookieValue |-> NoCookie, authenticated |-> "n/a"]

Free(r) == reqs[r].pc \in {"idle", "done"}

(* afterLogout, storeFailed and wroteAfterLogout are history: the request *)
(* arrived after a Logout with its cookie had succeeded; a store operation *)
(* of the request was rejected; its entity write was applied after a       *)
(* Logout with its cookie had succeeded.  accountDisabled is history too:  *)
(* the account of the session the lookup found was disabled at that time.  *)
NewReq(kind, pc, cookie) ==
    [IdleReq EXCEPT !.kind = kind, !.pc = pc, !.cookie = cookie,
                    !.afterLogout = cookie \in loggedOut]

(* Mutant: every error response also clears the cookie. *)
ErrorResponse_ClearsCookie(q, s, e, m) ==
    [IdleReq EXCEPT !.kind = q.kind, !.pc = "done", !.cookie = q.cookie,
                    !.username = q.username, !.account = q.account,
                    !.ent = q.ent,
                    !.afterLogout = q.afterLogout, !.storeOps = q.storeOps,
                    !.status = s, !.error = e, !.message = m,
                    !.cookieOp = "clear"]

(* res.status(s).json({error, message}) *)
ErrorResponse(q, s, e, m) ==
    [IdleReq EXCEPT !.kind = q.kind, !.pc = "done", !.cookie = q.cookie,
                    !.username = q.username, !.account = q.account,
                    !.ent = q.ent,
                    !.afterLogout = q.afterLogout, !.storeOps = q.storeOps,
                    !.status = s, !.error = e, !.message = m]

(* cleanError(err) of the two errors the store raises *)
StoreDown == "store unavailable"
DuplicateKey == "E11000 duplicate key error"

(* Mutant: the catch block answers like a failed authentication. *)
InternalError_AsUnauthorized(q, m) ==
    [ErrorResponse(q, 401, "unauthorized", m) EXCEPT !.storeFailed = m = StoreDown]

(* catch (err): res.status(500).json({ error: "internal_error", message }) *)
InternalError(q, m) ==
    [ErrorResponse(q, 500, "internal_error", m) EXCEPT !.storeFailed = m = StoreDown]

Init ==
    /\ accounts = [a \in AccountIds |->
                     IF a = 1
                     THEN [username |-> "alice", passwordHash |-> Argon2Hash("pwA"),
                           disabled |-> FALSE]
                     ELSE [username |-> "bob", passwordHash |-> Argon2Hash("pwB"),
                           disabled |-> FALSE]]
    /\ sessions = <<>>
    /\ entities = {}
    /\ touches = {}
    /\ reqs = [r \in Reqs |-> IdleReq]
    /\ now = 1
    /\ issued = {}
    /\ loggedOut = {}
    /\ touchFailed = {}
    /\ pages = {}
    /\ indexes = {IndexOrder[i] : i \in 1..Len(IndexOrder)}
    /\ file = "part_000"
    /\ env = Configured
    /\ boot = "listening"
    /\ client = 1
    /\ db = 1
    /\ clients = 1

(* ---------------------------- store queries ----------------------------- *)
SessionIds == 1..Len(sessions)

(* Mutant: the accounts query forgets disabled: false. *)
FindAccount_AnyState(username) ==
    IF \E a \in AccountIds : accounts[a].username = username
    THEN CHOOSE a \in AccountIds : accounts[a].username = username
    ELSE NULL

(* accounts.findOne({ username, disabled: false }) *)
FindAccount(username) ==
    IF \E a \in AccountIds :
          accounts[a].username = username /\ accounts[a].disabled = FALSE
    THEN CHOOSE a \in AccountIds :
          accounts[a].username = username /\ accounts[a].disabled = FALSE
    ELSE NULL

(* Mutant: the sessions query forgets revokedAt: null. *)
FindActiveSession_AnyState(hash) ==
    IF \E i \in SessionIds : sessions[i].sessionTokenHash = hash
    THEN CHOOSE i \in SessionIds : sessions[i].sessionTokenHash = hash
    ELSE NULL

(* Mutant: the sessions query forgets the sessionTokenHash. *)
FindActiveSession_AnyHash(hash) ==
    IF \E i \in SessionIds : sessions[i].revokedAt = NULL
    THEN CHOOSE i \in SessionIds : sessions[i].revokedAt = NULL
    ELSE NULL

(* Mutant: the sessions query is joined with the account's disabled flag. *)
FindActiveSession_EnabledAccount(hash) ==
    IF \E i \in SessionIds :
          /\ sessions[i].sessionTokenHash = hash /\ sessions[i].revokedAt = NULL
          /\ ~accounts[sessions[i].accountId].disabled
    THEN CHOOSE i \in SessionIds :
          /\ sessions[i].sessionTokenHash = hash /\ sessions[i].revokedAt = NULL
          /\ ~accounts[sessions[i].accountId].disabled
    ELSE NULL

(* sessions.findOne({ sessionTokenHash, revokedAt: null }) *)
FindActiveSession(hash) ==
    IF \E i \in SessionIds :
          sessions[i].sessionTokenHash = hash /\ sessions[i].revokedAt = NULL
    THEN CHOOSE i \in SessionIds :
          sessions[i].sessionTokenHash = hash /\ sessions[i].revokedAt = NULL
    ELSE NULL

(* Mutant: the sessions collection has no unique index. *)
SessionHashTaken_NoIndex(hash) == FALSE

(* the unique index { sessionTokenHash: 1 } of ensureIndexes: an insert    *)
(* with a hash some document has is rejected                                *)
SessionHashTaken(hash) ==
    /\ "sessions.sessionTokenHash" \in indexes
    /\ \E i \in SessionIds : sessions[i].sessionTokenHash = hash

(* logins that have passed validation and may still insert a session *)
LoginsInFlight ==
    Cardinality({r \in Reqs : reqs[r].kind = "login" /\ ~Free(r)})

(* ---------------------------- POST /admin/login ------------------------- *)
(* The body is read and validated; the handler then awaits the account.    *)
LoginStart(r, username, password) ==
    /\ boot = "listening"
    /\ Free(r)
    /\ Len(sessions) + LoginsInFlight < MaxSessions
    /\ LET q == [NewReq("login", "login_find", NoCookie)
                   EXCEPT !.username = username, !.password = password]
       IN  reqs' = [reqs EXCEPT ![r] =
                IF username = "" \/ password = ""
                THEN ErrorResponse(q, 400, "bad_request", "Missing username or password")
                ELSE q]
    /\ UNCHANGED <<accounts, sessions, entities, touches, now, issued, loggedOut,
                   content, process, touchFailed>>

(* accounts.findOne resolves (or rejects when fail). *)
LoginFindAccount(r, fail) ==
    /\ reqs[r].pc = "login_find"
    /\ LET q == [reqs[r] EXCEPT !.storeOps = @ + 1]
           account == FindAccount(q.username)
       IN  reqs' = [reqs EXCEPT ![r] =
                IF fail THEN InternalError(q, StoreDown)
                ELSE IF account = NULL
                THEN ErrorResponse(q, 401, "unauthorized", "Invalid credentials")
                ELSE [q EXCEPT !.pc = "login_verify", !.account = account]]
    /\ UNCHANGED <<accounts, sessions, entities, touches, now, issued, loggedOut,
                   content, process, touchFailed>>

(* argon2.verify resolves; on a match makeSessionToken draws sessionToken  *)
(* (crypto.randomBytes: any token, also one drawn before) and the handler  *)
(* awaits sessions.insertOne.                                               *)
LoginVerify(r, sessionToken) ==
    /\ reqs[r].pc = "login_verify"
    /\ LET q == reqs[r]
           ok == Argon2Verify(accounts[q.account].passwordHash, q.password)
       IN  reqs' = [reqs EXCEPT ![r] =
                IF ~ok
                THEN ErrorResponse(q, 401, "unauthorized", "Invalid credentials")
                ELSE [q EXCEPT !.pc = "login_insert", !.sessionToken = sessionToken]]
    /\ UNCHANGED <<accounts, sessions, entities, touches, now, issued, loggedOut,
                   content, process, touchFailed>>

(* Mutant: the session is inserted already revoked. *)
NewSession_BornRevoked(accountId, sessionToken, at) ==
    [accountId |-> accountId,
     sessionTokenHash |-> sessionTokenToHash(sessionToken),
     lastSeenAt |-> at, revokedAt |-> at]

(* Mutant: the raw token is stored in place of its digest. *)
NewSession_RawToken(accountId, sessionToken, at) ==
    [accountId |-> accountId,
     sessionTokenHash |-> sessionToken,
     lastSeenAt |-> at, revokedAt |-> NULL]

(* The document Login inserts for the token makeSessionToken returned.     *)
NewSession(accountId, sessionToken, at) ==
    [accountId |-> accountId,
     sessionTokenHash |-> sessionTokenToHash(sessionToken),
     lastSeenAt |-> at, revokedAt |-> NULL]

(* res.cookie("admin_session", sessionToken, ...); res.json({ ok: true }) *)
LoginResponse(q, sessionToken) ==
    [IdleReq EXCEPT !.kind = q.kind, !.pc = "done", !.cookie = q.cookie,
                    !.username = q.username, !.account = q.account,
                    !.storeOps = q.storeOps,
                    !.status = 200,
                    !.cookieOp = "set", !.cookieValue = sessionToken]

(* sessions.insertOne resolves; the unique index rejects a taken hash      *)
(* with E11000, which the catch block turns into 500.                       *)
LoginInsert(r, fail) ==
    /\ reqs[r].pc = "login_insert"
    /\ LET q == [reqs[r] EXCEPT !.storeOps = @ + 1]
           sessionToken == q.sessionToken
           doc == NewSession(q.account, sessionToken, now)
       IN  IF fail
           THEN /\ reqs' = [reqs EXCEPT ![r] = InternalError(q, StoreDown)]
                /\ UNCHANGED <<sessions, issued>>
           ELSE IF SessionHashTaken(doc.sessionTokenHash)
           THEN /\ reqs' = [reqs EXCEPT ![r] = InternalError(q, DuplicateKey)]
                /\ UNCHANGED <<sessions, issued>>
           ELSE /\ sessions' = Append(sessions, doc)
                /\ reqs' = [reqs EXCEPT ![r] = LoginResponse(q, sessionToken)]
                /\ issued' = issued \cup
                       {[token |-> sessionToken, accountId |-> q.account,
                         sessionId |-> Len(sessions) + 1,
                         pepper |-> SESSION_PEPPER]}
    /\ UNCHANGED <<accounts, entities, touches, now, loggedOut,
                   content, process, touchFailed>>

(* ---------------------------- requireAdminSession ----------------------- *)
(* A request to a route behind requireAdminSession arrives: the cookie is  *)
(* read; without one the middleware answers 401, else it awaits the        *)
(* session lookup.                                                          *)
AdminStart(r, kind, cookie, ent, body) ==
    /\ boot = "listening"
    /\ Free(r)
    /\ LET q == [NewReq(kind, "auth_find", cookie) EXCEPT !.ent = ent, !.body = body]
       IN  reqs' = [reqs EXCEPT ![r] =
                IF cookie = NoCookie
                THEN ErrorResponse(q, 401, "unauthorized", "Missing admin session")
                ELSE q]
    /\ UNCHANGED <<accounts, sessions, entities, touches, now, issued, loggedOut,
                   content, process, touchFailed>>

LogoutStart(r, cookie) == AdminStart(r, "logout", cookie, "", "")

PostStart(r, cookie, ent, body) == AdminStart(r, "post", cookie, ent, body)

PutStart(r, cookie, ent, body) == AdminStart(r, "put", cookie, ent, body)

(* Where next() continues: each handler runs up to its first store await.  *)
HandlerEntry(kind) ==
    CASE kind = "logout" -> "logout_update"
      [] kind = "post" -> "post_find"
      [] kind = "put" -> "put_update"

(* Mutant: the 401 of a missing session is sent without return, and the   *)
(* middleware goes on to next().                                            *)
AuthFind_NextOnMiss(r, fail) ==
    /\ reqs[r].pc = "auth_find"
    /\ LET q == [reqs[r] EXCEPT !.storeOps = @ + 1]
           session == FindActiveSession(sessionTokenToHash(q.cookie))
       IN  IF fail
           THEN /\ reqs' = [reqs EXCEPT ![r] = InternalError(q, StoreDown)]
                /\ UNCHANGED touches
           ELSE IF session = NULL
           THEN /\ reqs' = [reqs EXCEPT ![r] = [q EXCEPT !.pc = HandlerEntry(q.kind)]]
                /\ UNCHANGED touches
           ELSE /\ touches' = touches \cup {[sessionId |-> session, at |-> now]}
                /\ reqs' = [reqs EXCEPT ![r] =
                       [q EXCEPT !.pc = HandlerEntry(q.kind),
                                 !.adminAccount = sessions[session].accountId,
                                 !.adminSession = session]]
    /\ UNCHANGED <<accounts, sessions, entities, now, issued, loggedOut,
                   content, process, touchFailed>>

(* sessions.findOne resolves.  On a hit the lastSeenAt update is issued    *)
(* without await, req.admin is set and next() runs the handler.            *)
AuthFind(r, fail) ==
    /\ reqs[r].pc = "auth_find"
    /\ LET q == [reqs[r] EXCEPT !.storeOps = @ + 1]
           session == FindActiveSession(sessionTokenToHash(q.cookie))
       IN  IF fail
           THEN /\ reqs' = [reqs EXCEPT ![r] = InternalError(q, StoreDown)]
                /\ UNCHANGED touches
           ELSE IF session = NULL
           THEN /\ reqs' = [reqs EXCEPT ![r] =
                       ErrorResponse(q, 401, "unauthorized", "Invalid or revoked session")]
                /\ UNCHANGED touches
           ELSE /\ touches' = touches \cup {[sessionId |-> session, at |-> now]}
                /\ reqs' = [reqs EXCEPT ![r] =
                       [q EXCEPT !.pc = HandlerEntry(q.kind),
                                 !.adminAccount = sessions[session].accountId,
                                 !.adminSession = session,
                                 !.accountDisabled =
                                     accounts[sessions[session].accountId].disabled]]
    /\ UNCHANGED <<accounts, sessions, entities, now, issued, loggedOut,
                   content, process, touchFailed>>

(* Mutant: the update writes back the whole document as the lookup read   *)
(* it, an active session, with the new lastSeenAt.                          *)
TouchApply_WriteBack(t) ==
    /\ t \in touches
    /\ sessions' = [sessions EXCEPT ![t.sessionId] =
                       [@ EXCEPT !.lastSeenAt = t.at, !.revokedAt = NULL]]
    /\ touches' = touches \ {t}
    /\ UNCHANGED <<accounts, entities, reqs, now, issued, loggedOut,
                   content, process, touchFailed>>

(* Mutant: the update filters on the accountId of the session, not on its *)
(* _id, and touches every session of the account.                           *)
TouchApply_WholeAccount(t) ==
    /\ t \in touches
    /\ sessions' = [i \in SessionIds |->
                      IF sessions[i].accountId = sessions[t.sessionId].accountId
                      THEN [sessions[i] EXCEPT !.lastSeenAt = t.at]
                      ELSE sessions[i]]
    /\ touches' = touches \ {t}
    /\ UNCHANGED <<accounts, entities, reqs, now, issued, loggedOut,
                   content, process, touchFailed>>

(* The store applies a lastSeenAt update: updateOne({ _id }, { $set }).    *)
TouchApply(t) ==
    /\ t \in touches
    /\ sessions' = [sessions EXCEPT ![t.sessionId].lastSeenAt = t.at]
    /\ touches' = touches \ {t}
    /\ UNCHANGED <<accounts, entities, reqs, now, issued, loggedOut,
                   content, process, touchFailed>>

(* Mutant: the update is awaited inside the try block, so its rejection   *)
(* reaches the catch block of every request still waiting on that session. *)
TouchFail_Escalates(t) ==
    /\ t \in touches
    /\ touches' = touches \ {t}
    /\ touchFailed' = touchFailed \cup {t}
    /\ reqs' = [r \in Reqs |->
                  IF ~Free(r) /\ reqs[r].adminSession = t.sessionId
                  THEN ErrorResponse(reqs[r], 500, "internal_error", "store unavailable")
                  ELSE reqs[r]]
    /\ UNCHANGED <<accounts, sessions, entities, now, issued, loggedOut,
                   content, process>>

(* The update rejects; .catch(() => {}) swallows it.                       *)
TouchFail(t) ==
    /\ t \in touches
    /\ touches' = touches \ {t}
    /\ touchFailed' = touchFailed \cup {t}
    /\ UNCHANGED <<accounts, sessions, entities, reqs, now, issued, loggedOut,
                   content, process>>

(* ---------------------------- POST /admin/logout ------------------------ *)
(* Mutant: Logout revokes every session of the account that owns the hash. *)
RevokeByHash_WholeAccount(hash, at) ==
    [i \in SessionIds |->
       IF \E j \in SessionIds :
             /\ sessions[j].sessionTokenHash = hash
             /\ sessions[j].accountId = sessions[i].accountId
       THEN [sessions[i] EXCEPT !.revokedAt = at]
       ELSE sessions[i]]

(* Mutant: the filter of the update is { revokedAt: null } and the update  *)
(* an updateMany: every active session is revoked.                          *)
RevokeByHash_AllActive(hash, at) ==
    [i \in SessionIds |->
       IF sessions[i].revokedAt = NULL
       THEN [sessions[i] EXCEPT !.revokedAt = at]
       ELSE sessions[i]]

(* updateOne({ sessionTokenHash }, { $set: { revokedAt: at } }): the first *)
(* document with that hash, whatever its revokedAt.                         *)
RevokeByHash(hash, at) ==
    IF \E j \in SessionIds : sessions[j].sessionTokenHash = hash
    THEN LET i == CHOOSE j \in SessionIds :
                    /\ sessions[j].sessionTokenHash = hash
                    /\ \A k \in SessionIds :
                          sessions[k].sessionTokenHash = hash => j <= k
         IN  [sessions EXCEPT ![i].revokedAt = at]
    ELSE sessions

(* res.clearCookie("admin_session"); res.json({ ok: true }) *)
LogoutResponse(q) ==
    [IdleReq EXCEPT !.kind = q.kind, !.pc = "done", !.cookie = q.cookie,
                    !.afterLogout = q.afterLogout, !.storeOps = q.storeOps,
                    !.status = 200, !.cookieOp = "clear"]

(* Mutant: the update filters on revokedAt: null as well, and a Logout    *)
(* whose update matched nothing is answered like a revoked session.        *)
LogoutUpdate_Conditional(r, fail) ==
    /\ reqs[r].pc = "logout_update"
    /\ LET q == [reqs[r] EXCEPT !.storeOps = @ + 1]
           hash == sessionTokenToHash(q.cookie)
       IN  IF fail
           THEN /\ reqs' = [reqs EXCEPT ![r] = InternalError(q, StoreDown)]
                /\ UNCHANGED <<sessions, loggedOut>>
           ELSE IF FindActiveSession(hash) = NULL
           THEN /\ reqs' = [reqs EXCEPT ![r] =
                       ErrorResponse(q, 401, "unauthorized", "Invalid or revoked session")]
                /\ UNCHANGED <<sessions, loggedOut>>
           ELSE /\ sessions' = RevokeByHash(hash, now)
                /\ reqs' = [reqs EXCEPT ![r] = LogoutResponse(q)]
                /\ loggedOut' = loggedOut \cup {q.cookie}
    /\ UNCHANGED <<accounts, entities, touches, now, issued,
                   content, process, touchFailed>>

(* updateOne resolves (or rejects when fail); the cookie is cleared.       *)
LogoutUpdate(r, fail) ==
    /\ reqs[r].pc = "logout_update"
    /\ LET q == [reqs[r] EXCEPT !.storeOps = @ + 1]
           hash == sessionTokenToHash(q.cookie)
       IN  IF fail
           THEN /\ reqs' = [reqs EXCEPT ![r] = InternalError(q, StoreDown)]
                /\ UNCHANGED <<sessions, loggedOut>>
           ELSE /\ sessions' = RevokeByHash(hash, now)
                /\ reqs' = [reqs EXCEPT ![r] = LogoutResponse(q)]
                /\ loggedOut' = loggedOut \cup {q.cookie}
    /\ UNCHANGED <<accounts, entities, touches, now, issued,
                   content, process, touchFailed>>

(* ---------------------------- GET /admin/me ----------------------------- *)
(* res.json({ authenticated }) *)
MeResponse(q, authenticated) ==
    [IdleReq EXCEPT !.kind = q.kind, !.pc = "done", !.cookie = q.cookie,
                    !.afterLogout = q.afterLogout, !.storeOps = q.storeOps,
                    !.status = 200,
                    !.authenticated = IF authenticated THEN "true" ELSE "false"]

MeStart(r, cookie) ==
    /\ boot = "listening"
    /\ Free(r)
    /\ LET q == NewReq("me", "me_find", cookie)
       IN  reqs' = [reqs EXCEPT ![r] =
                IF cookie = NoCookie THEN MeResponse(q, FALSE) ELSE q]
    /\ UNCHANGED <<accounts, sessions, entities, touches, now, issued, loggedOut,
                   content, process, touchFailed>>

(* Mutant: the handler has no catch block; the rejection becomes a 500.   *)
MeFind_NoCatch(r, fail) ==
    /\ reqs[r].pc = "me_find"
    /\ LET q == [reqs[r] EXCEPT !.storeOps = @ + 1]
           session == FindActiveSession(sessionTokenToHash(q.cookie))
       IN  reqs' = [reqs EXCEPT ![r] =
                IF fail THEN InternalError(q, StoreDown)
                ELSE MeResponse(q, session # NULL)]
    /\ UNCHANGED <<accounts, sessions, entities, touches, now, issued, loggedOut,
                   content, process, touchFailed>>

(* findOne resolves, or rejects and the catch block answers.               *)
MeFind(r, fail) ==
    /\ reqs[r].pc = "me_find"
    /\ LET q == [reqs[r] EXCEPT !.storeOps = @ + 1]
           session == FindActiveSession(sessionTokenToHash(q.cookie))
       IN  reqs' = [reqs EXCEPT ![r] =
                IF fail THEN [MeResponse(q, FALSE) EXCEPT !.storeFailed = TRUE]
                ELSE IF session = NULL THEN MeResponse(q, FALSE)
                ELSE [MeResponse(q, TRUE) EXCEPT !.accountDisabled =
                         accounts[sessions[session].accountId].disabled]]
    /\ UNCHANGED <<accounts, sessions, entities, touches, now, issued, loggedOut,
                   content, process, touchFailed>>

(* ---------------------------- entity writes ----------------------------- *)
(* entities.findOne({ list, key }) *)
EntityExists(ent) == \E d \in entities : d.ent = ent

(* Mutant: the entities collection has no unique index. *)
EntityKeyTaken_NoIndex(ent) == FALSE

(* the unique index { list: 1, key: 1 } of ensureIndexes: an insert with   *)
(* the (list, key) of some document is rejected                             *)
EntityKeyTaken(ent) ==
    /\ "entities.list_key" \in indexes
    /\ \E d \in entities : d.ent = ent

(* res.status(s).json(document) *)
EntityResponse(q, s) ==
    [IdleReq EXCEPT !.kind = q.kind, !.pc = "done", !.cookie = q.cookie,
                    !.ent = q.ent, !.afterLogout = q.afterLogout,
                    !.storeOps = q.storeOps,
                    !.status = s]

(* POST /entities/:list/:key: the pre-check findOne resolves. *)
PostFind(r, fail) ==
    /\ reqs[r].pc = "post_find"
    /\ LET q == [reqs[r] EXCEPT !.storeOps = @ + 1]
       IN  reqs' = [reqs EXCEPT ![r] =
                IF fail THEN InternalError(q, StoreDown)
                ELSE IF EntityExists(q.ent)
                THEN ErrorResponse(q, 409, "conflict", "Entity already exists")
                ELSE [q EXCEPT !.pc = "post_insert"]]
    /\ UNCHANGED <<accounts, sessions, entities, touches, now, issued, loggedOut,
                   content, process, touchFailed>>

(* insertOne resolves; the unique index { list, key } rejects a duplicate  *)
(* with E11000, which the catch block turns into 409.                       *)
PostInsert(r, fail) ==
    /\ reqs[r].pc = "post_insert"
    /\ LET q == [reqs[r] EXCEPT !.storeOps = @ + 1]
       IN  IF fail
           THEN /\ reqs' = [reqs EXCEPT ![r] = InternalError(q, StoreDown)]
                /\ UNCHANGED entities
           ELSE IF EntityKeyTaken(q.ent)
           THEN /\ reqs' = [reqs EXCEPT ![r] =
                       ErrorResponse(q, 409, "conflict", "Entity already exists")]
                /\ UNCHANGED entities
           ELSE /\ entities' = entities \cup
                       {[ent |-> q.ent, body |-> q.body, updatedAt |-> now]}
                /\ reqs' = [reqs EXCEPT ![r] =
                       [EntityResponse(q, 201)
                          EXCEPT !.wroteAfterLogout = q.cookie \in loggedOut]]
    /\ UNCHANGED <<accounts, sessions, touches, now, issued, loggedOut,
                   content, process, touchFailed>>

(* PUT /entities/:list/:key: findOneAndUpdate({ list, key }, { $set })     *)
PutUpdate(r, fail) ==
    /\ reqs[r].pc = "put_update"
    /\ LET q == [reqs[r] EXCEPT !.storeOps = @ + 1]
       IN  IF fail
           THEN /\ reqs' = [reqs EXCEPT ![r] = InternalError(q, StoreDown)]
                /\ UNCHANGED entities
           ELSE IF ~EntityExists(q.ent)
           THEN /\ reqs' = [reqs EXCEPT ![r] =
                       ErrorResponse(q, 404, "not_found", "Entity not found")]
                /\ UNCHANGED entities
           ELSE /\ entities' =
                       LET d == CHOOSE e \in entities : e.ent = q.ent
                       IN  (entities \ {d}) \cup
                             {[d EXCEPT !.body = q.body, !.updatedAt = now]}
                /\ reqs' = [reqs EXCEPT ![r] =
                       [EntityResponse(q, 200)
                          EXCEPT !.wroteAfterLogout = q.cookie \in loggedOut]]
    /\ UNCHANGED <<accounts, sessions, touches, now, issued, loggedOut,
                   content, process, touchFailed>>

(* ---------------------------- read endpoints ---------------------------- *)
(* the routes each file registers *)
Routes(f) ==
    IF f = "server.js" THEN {"/pages/:id"}
    ELSE {"/pages", "/pages/:id", "/countries/:code", "/cities/:key"}

(* the route parameters tried *)
Params(route) ==
    CASE route = "/pages" -> {""}
      [] route = "/pages/:id" -> Lists
      [] route = "/countries/:code" -> {"be"}
      [] route = "/cities/:key" -> {"gent"}

(* String(code).toUpperCase() *)
toUpperCase(code) == CASE code = "be" -> "BE" [] OTHER -> code

(* cityKeyToDisplayName: `gent` -> `Gent` *)
cityKeyToDisplayName(key) == CASE key = "gent" -> "Gent" [] OTHER -> ""

(* the documents the find() of the route matches *)
Matching(route, param) ==
    CASE route = "/pages" -> pages
      [] route = "/pages/:id" -> {d \in entities : d.list = param}
      [] route = "/countries/:code" ->
            {d \in entities : d.country = toUpperCase(param)}
      [] route = "/cities/:key" ->
            {d \in entities : d.city = cityKeyToDisplayName(param)}
      [] OTHER -> {}

(* the sort() of the route: server.js sorts by name alone *)
SortSpec(f, route) ==
    IF f = "server.js" THEN <<"name">> ELSE <<"name", "key">>

(* the place of a key in the string order of the store; the key of a page *)
(* is the name of its list                                                  *)
KeyRank(key) ==
    CASE key = "a" -> 1
      [] key = "b" -> 2
      [] key = "cities" -> 3
      [] key = "countries" -> 4

(* a comes before b, or ties with it, under the sort specification *)
SortsBefore(a, b, sortSpec) ==
    IF sortSpec = <<"name">> THEN a.name <= b.name
    ELSE a.name < b.name \/ (a.name = b.name /\ KeyRank(a.key) <= KeyRank(b.key))

Ordered(seq, sortSpec) ==
    \A i, j \in 1..Len(seq) : i < j => SortsBefore(seq[i], seq[j], sortSpec)

(* find(query).sort(sortSpec).toArray(): every matching document once, in  *)
(* an order the sort allows; the store decides the order of ties.          *)
FindSorted(matching, sortSpec) ==
    {seq \in [1..Cardinality(matching) -> matching] :
        /\ \A i, j \in 1..Cardinality(matching) : i # j => seq[i] # seq[j]
        /\ Ordered(seq, sortSpec)}

(* the list whose canonical entity the route hoists out of the result *)
HoistList(route) ==
    CASE route = "/countries/:code" -> "countries"
      [] route = "/cities/:key" -> "cities"
      [] OTHER -> ""

(* all.findIndex(e => e.list === list), 0 when there is none *)
FindIndex(all, list) ==
    IF \E i \in 1..Len(all) : all[i].list = list
    THEN CHOOSE i \in 1..Len(all) :
            /\ all[i].list = list
            /\ \A j \in 1..Len(all) : all[j].list = list => i <= j
    ELSE 0

(* all.filter((_, i) => i !== index) *)
Without(all, index) ==
    [i \in 1..(Len(all) - 1) |-> IF i < index THEN all[i] ELSE all[i + 1]]

(* res.json({ ... }) of a read handler: lead is "--info--", country or     *)
(* city, when there is one; docs is pages or entities.                      *)
ReadResponse(q, lead, docs) ==
    [IdleReq EXCEPT !.kind = q.kind, !.pc = "done",
                    !.route = q.route, !.param = q.param, !.handle = q.handle,
                    !.storeOps = q.storeOps,
                    !.status = 200, !.lead = lead, !.docs = docs]

(* the first store operation a read handler awaits *)
FirstRead(route) == IF route = "/pages/:id" THEN "read_page" ELSE "read_list"

(* A GET of a read route arrives and the handler calls connectToMongo:    *)
(* with db set it goes on with that handle; otherwise it makes a           *)
(* MongoClient, assigns it to client and awaits its connect.                *)
ReadStart(r, route, param) ==
    /\ boot = "listening"
    /\ Free(r)
    /\ route \in Routes(file)
    /\ param \in Params(route)
    /\ LET q == [NewReq("read", FirstRead(route), NoCookie)
                   EXCEPT !.route = route, !.param = param]
       IN  IF db # NULL
           THEN /\ reqs' = [reqs EXCEPT ![r] = [q EXCEPT !.handle = db]]
                /\ UNCHANGED <<client, clients>>
           ELSE /\ clients < MaxClients
                /\ reqs' = [reqs EXCEPT ![r] = [q EXCEPT !.pc = "connect"]]
                /\ client' = clients + 1
                /\ clients' = clients + 1
    /\ UNCHANGED <<accounts, sessions, entities, touches, now, issued, loggedOut,
                   touchFailed, content, file, env, boot, db>>

(* client.connect() of a request resolves: db = client.db(DB_NAME) takes   *)
(* the handle of whatever client holds by now, and the handler goes on     *)
(* with it; a rejection reaches the catch block of the handler.            *)
ConnectDone(r, fail) ==
    /\ reqs[r].pc = "connect"
    /\ IF fail
       THEN /\ reqs' = [reqs EXCEPT ![r] =
                   [ReadResponse(reqs[r], <<>>, <<>>)
                      EXCEPT !.status = 500, !.error = "internal_error",
                             !.message = StoreDown, !.storeFailed = TRUE]]
            /\ db' = db
       ELSE /\ db' = client
            /\ reqs' = [reqs EXCEPT ![r] =
                   [@ EXCEPT !.pc = FirstRead(reqs[r].route), !.handle = client]]
    /\ UNCHANGED <<accounts, sessions, entities, touches, now, issued, loggedOut,
                   touchFailed, content, file, env, boot, client, clients>>

(* GET /pages/:id: pages.findOne({ key: id }) resolves with pageDoc, one   *)
(* of the pages with that key, or with null when there is none.            *)
ReadPage(r, pageDoc) ==
    /\ reqs[r].pc = "read_page"
    /\ LET q == [reqs[r] EXCEPT !.storeOps = @ + 1]
           found == {d \in pages : d.key = q.param}
       IN  IF found = {}
           THEN /\ pageDoc = <<>>
                /\ reqs' = [reqs EXCEPT ![r] =
                       [ReadResponse(q, <<>>, <<>>)
                          EXCEPT !.status = 404, !.error = "page_not_found"]]
           ELSE /\ pageDoc \in {<<d>> : d \in found}
                /\ reqs' = [reqs EXCEPT ![r] =
                       [q EXCEPT !.pc = "read_list", !.lead = pageDoc]]
    /\ UNCHANGED <<accounts, sessions, entities, touches, now, issued, loggedOut,
                   content, process, touchFailed>>

(* find(query).sort(...).toArray() resolves with all; the handler shapes   *)
(* the response of its route.                                               *)
ReadList(r, all) ==
    /\ reqs[r].pc = "read_list"
    /\ LET q == [reqs[r] EXCEPT !.storeOps = @ + 1]
           index == FindIndex(all, HoistList(q.route))
       IN  /\ all \in FindSorted(Matching(q.route, q.param), SortSpec(file, q.route))
           /\ reqs' = [reqs EXCEPT ![r] =
                  IF q.route \in {"/pages", "/pages/:id"}
                  THEN ReadResponse(q, q.lead, all)
                  ELSE IF index = 0 THEN ReadResponse(q, <<>>, all)
                  ELSE ReadResponse(q, <<all[index]>>, Without(all, index))]
    /\ UNCHANGED <<accounts, sessions, entities, touches, now, issued, loggedOut,
                   content, process, touchFailed>>

(* the read routes, requests in the slots R *)
Read(R) ==
    \/ \E r \in R, route \in Routes(file) : \E param \in Params(route) :
          ReadStart(r, route, param)
    \/ \E r \in R : ConnectDone(r, FALSE)
    \/ \E r \in R, pageDoc \in {<<>>} \cup {<<d>> : d \in pages} : ReadPage(r, pageDoc)
    \/ \E r \in R :
          \E all \in FindSorted(Matching(reqs[r].route, reqs[r].param),
                                 SortSpec(file, reqs[r].route)) : ReadList(r, all)

(* ---------------------------- environment ------------------------------- *)
(* Time passes between two readings of new Date().                          *)
Tick ==
    /\ now < MaxTime
    /\ now' = now + 1
    /\ UNCHANGED <<accounts, sessions, entities, touches, reqs, issued, loggedOut,
                   content, process, touchFailed>>

(* Out-of-band provisioning toggles an account's disabled flag.             *)
SetDisabled(a) ==
    /\ accounts' = [accounts EXCEPT ![a].disabled = ~@]
    /\ UNCHANGED <<sessions, entities, touches, reqs, now, issued, loggedOut,
                   content, process, touchFailed>>

(* ---------------------------- startup ----------------------------------- *)
(* the variables the module code checks before anything else *)
Required(f) ==
    IF f = "part_000" THEN {"MONGODB_URI", "MONGODB_DB", "SESSION_PEPPER"}
    ELSE {"MONGODB_URI", "MONGODB_DB"}

Envs ==
    [MONGODB_URI : {Unset, 1}, MONGODB_DB : {Unset, 1},
     SESSION_PEPPER : {Unset} \cup Peppers]

(* The module code runs up to its first await: the configuration checks,  *)
(* then part_000 enters ensureIndexes and connectToMongo (db is not set:   *)
(* a MongoClient is made and its connect awaited), while server.js and     *)
(* part_001 call app.listen at once.                                        *)
Load ==
    /\ boot = "load"
    /\ IF \E v \in Required(file) : env[v] = Unset
       THEN /\ boot' = "exited"
            /\ UNCHANGED <<client, clients>>
       ELSE IF file = "part_000"
       THEN /\ boot' = "connect"
            /\ client' = clients + 1
            /\ clients' = clients + 1
       ELSE /\ boot' = "listening"
            /\ UNCHANGED <<client, clients>>
    /\ UNCHANGED <<accounts, sessions, entities, touches, reqs, now, issued, loggedOut,
                   touchFailed, content, file, env, db>>

(* client.connect() of the startup resolves: db is set and ensureIndexes   *)
(* awaits its first createIndex; a rejection reaches the catch block of    *)
(* the startup, which exits.                                                *)
BootConnect(fail) ==
    /\ boot = "connect"
    /\ IF fail
       THEN boot' = "exited" /\ db' = db
       ELSE boot' = IndexOrder[1] /\ db' = client
    /\ UNCHANGED <<accounts, sessions, entities, touches, reqs, now, issued, loggedOut,
                   touchFailed, content, file, env, client, clients>>

IndexPos(name) == CHOOSE i \in 1..Len(IndexOrder) : IndexOrder[i] = name

(* Mutant: a rejected createIndex is logged and the startup goes on. *)
BootCreateIndex_Ignored(fail) ==
    /\ \E i \in 1..Len(IndexOrder) : boot = IndexOrder[i]
    /\ indexes' = IF fail THEN indexes ELSE indexes \cup {boot}
    /\ boot' = IF IndexPos(boot) < Len(IndexOrder)
               THEN IndexOrder[IndexPos(boot) + 1]
               ELSE "listening"
    /\ UNCHANGED <<accounts, sessions, entities, touches, reqs, now, issued, loggedOut,
                   touchFailed, pages, file, env, client, db, clients>>

(* The createIndex ensureIndexes awaits resolves: the next one is awaited, *)
(* and after the last ensureIndexes returns and app.listen is called; a    *)
(* rejection reaches the catch block of the startup, which exits.          *)
BootCreateIndex(fail) ==
    /\ \E i \in 1..Len(IndexOrder) : boot = IndexOrder[i]
    /\ IF fail
       THEN boot' = "exited" /\ indexes' = indexes
       ELSE /\ indexes' = indexes \cup {boot}
            /\ boot' = IF IndexPos(boot) < Len(IndexOrder)
                       THEN IndexOrder[IndexPos(boot) + 1]
                       ELSE "listening"
    /\ UNCHANGED <<accounts, sessions, entities, touches, reqs, now, issued, loggedOut,
                   touchFailed, pages, file, env, client, db, clients>>

(* The process is stopped and node starts it again with the environment  *)
(* e: requests in flight are lost with their connections, the module       *)
(* variables start unset; the store keeps what it has.                      *)
Restart(e) ==
    /\ boot \in {"listening", "exited"}
    /\ env' = e
    /\ boot' = "load"
    /\ reqs' = [r \in Reqs |-> IdleReq]
    /\ client' = NULL /\ db' = NULL /\ clients' = 0
    /\ UNCHANGED <<accounts, sessions, entities, touches, now, issued, loggedOut,
                   touchFailed, content, file>>

Startup ==
    \/ Load
    \/ \E fail \in BOOLEAN : BootConnect(fail)
    \/ \E fail \in BOOLEAN : BootCreateIndex(fail)

(* ---------------------------- specifications ---------------------------- *)
(* POST /admin/login with usernames U and passwords P *)
Login(U, P) ==
    \/ \E r \in Reqs, u \in U, p \in P : LoginStart(r, u, p)
    \/ \E r \in Reqs : LoginFindAccount(r, FALSE)
    \/ \E r \in Reqs, t \in Tokens : LoginVerify(r, t)
    \/ \E r \in Reqs : LoginInsert(r, FALSE)

(* POST /admin/logout, behind requireAdminSession, with cookies C *)
Logout(C) ==
    \/ \E r \in Reqs, c \in C : LogoutStart(r, c)
    \/ \E r \in Reqs : AuthFind(r, FALSE)
    \/ \E t \in touches : TouchApply(t)
    \/ \E r \in Reqs : LogoutUpdate(r, FALSE)

(* GET /admin/me with cookies C *)
Me(C) ==
    \/ \E r \in Reqs, c \in C : MeStart(r, c)
    \/ \E r \in Reqs : MeFind(r, FALSE)

(* POST and PUT /entities/:list/:key, behind requireAdminSession *)
EntityWrites(C) ==
    \/ \E r \in Reqs, c \in C, e \in EntityKeys, b \in Bodies : PostStart(r, c, e, b)
    \/ \E r \in Reqs, c \in C, e \in EntityKeys, b \in Bodies : PutStart(r, c, e, b)
    \/ \E r \in Reqs : PostFind(r, FALSE)
    \/ \E r \in Reqs : PostInsert(r, FALSE)
    \/ \E r \in Reqs : PutUpdate(r, FALSE)

(* The session mechanism, any input, the store answering every operation. *)
(* No handler reads a timestamp it wrote, except to test revokedAt for     *)
(* null, so here all readings of the clock fall into one tick.             *)
Next ==
    \/ Login(Usernames, Passwords)
    \/ Logout(CookieValues)
    \/ Me(CookieValues)
    \/ \E a \in AccountIds : SetDisabled(a)

Spec == Init /\ [][Next]_vars

(* The same with the clock advancing between the readings of new Date(),  *)
(* for valid logins of one account and well-formed cookies.                *)
NextClock ==
    \/ Login({"alice"}, {"pwA"})
    \/ Logout(Tokens)
    \/ Me(Tokens)
    \/ Tick

SpecClock == Init /\ [][NextClock]_vars

(* The admin write endpoints behind the session mechanism.                 *)
NextAdmin ==
    \/ Login({"alice"}, {"pwA"})
    \/ Logout(Tokens)
    \/ EntityWrites(CookieValues)

SpecAdmin == Init /\ [][NextAdmin]_vars

(* A store operation of the session mechanism may also reject (the store   *)
(* is unreachable).                                                         *)
StoreFault ==
    \/ \E r \in Reqs : LoginFindAccount(r, TRUE)
    \/ \E r \in Reqs : LoginInsert(r, TRUE)
    \/ \E r \in Reqs : AuthFind(r, TRUE)
    \/ \E t \in touches : TouchFail(t)
    \/ \E r \in Reqs : LogoutUpdate(r, TRUE)
    \/ \E r \in Reqs : MeFind(r, TRUE)

NextFault ==
    \/ Login({"alice"}, {"pwA"})
    \/ Logout(Tokens)
    \/ Me(CookieValues)
    \/ StoreFault

SpecFault == Init /\ [][NextFault]_vars

(* part_000 from the start of the process, on a store that holds the      *)
(* accounts and no index yet, under any configuration.                     *)
InitStart ==
    /\ accounts = [a \in AccountIds |->
                     IF a = 1
                     THEN [username |-> "alice", passwordHash |-> Argon2Hash("pwA"),
                           disabled |-> FALSE]
                     ELSE [username |-> "bob", passwordHash |-> Argon2Hash("pwB"),
                           disabled |-> FALSE]]
    /\ sessions = <<>>
    /\ entities = {}
    /\ touches = {}
    /\ reqs = [r \in Reqs |-> IdleReq]
    /\ now = 1
    /\ issued = {}
    /\ loggedOut = {}
    /\ touchFailed = {}
    /\ pages = {}
    /\ indexes = {}
    /\ file = "part_000"
    /\ env \in Envs
    /\ boot = "load"
    /\ client = NULL
    /\ db = NULL
    /\ clients = 0

NextStart ==
    \/ Startup
    \/ Login({"alice"}, {"pwA"})
    \/ Me(CookieValues)

SpecStart == InitStart /\ [][NextStart]_vars

(* part_000 restarted under the same or another SESSION_PEPPER, over the   *)
(* store the earlier runs left.                                             *)
NextRotate ==
    \/ \E p \in Peppers : Restart([Configured EXCEPT !.SESSION_PEPPER = p])
    \/ Load
    \/ BootConnect(FALSE)
    \/ BootCreateIndex(FALSE)
    \/ Login({"alice"}, {"pwA"})
    \/ Logout(Tokens)
    \/ Me(Tokens)

SpecRotate == Init /\ [][NextRotate]_vars

(* Any of the three files from the start of its process, over a store     *)
(* that holds up to MaxDocs entities, no two with the same (list, key),    *)
(* and pages; one read request at a time.                                   *)
InitRead ==
    /\ accounts = [a \in AccountIds |->
                     IF a = 1
                     THEN [username |-> "alice", passwordHash |-> Argon2Hash("pwA"),
                           disabled |-> FALSE]
                     ELSE [username |-> "bob", passwordHash |-> Argon2Hash("pwB"),
                           disabled |-> FALSE]]
    /\ sessions = <<>>
    /\ entities \in {S \in SubsetsUpTo(ContentDocs, MaxDocs) :
                        \A d, e \in S : (d.list = e.list /\ d.key = e.key) => d = e}
    /\ touches = {}
    /\ reqs = [r \in Reqs |-> IdleReq]
    /\ now = 1
    /\ issued = {}
    /\ loggedOut = {}
    /\ touchFailed = {}
    /\ pages \in {S \in SUBSET PageDocs :
                     \A d, e \in S : d.key = e.key => d = e}
    /\ indexes = {}
    /\ file \in Files
    /\ env = Configured
    /\ boot = "load"
    /\ client = NULL
    /\ db = NULL
    /\ clients = 0

NextRead ==
    \/ Load
    \/ BootConnect(FALSE)
    \/ BootCreateIndex(FALSE)
    \/ Read({1})

SpecRead == InitRead /\ [][NextRead]_vars

(* Any of the three files from the start of its process, read requests    *)
(* arriving together, and a connect that may be rejected.                   *)
InitConnect ==
    /\ accounts = [a \in AccountIds |->
                     IF a = 1
                     THEN [username |-> "alice", passwordHash |-> Argon2Hash("pwA"),
                           disabled |-> FALSE]
                     ELSE [username |-> "bob", passwordHash |-> Argon2Hash("pwB"),
                           disabled |-> FALSE]]
    /\ sessions = <<>>
    /\ entities = {[list |-> "cities", key |-> "a", name |-> 1,
                     country |-> "BE", city |-> "Gent"]}
    /\ touches = {}
    /\ reqs = [r \in Reqs |-> IdleReq]
    /\ now = 1
    /\ issued = {}
    /\ loggedOut = {}
    /\ touchFailed = {}
    /\ pages = {[key |-> "cities", name |-> 1]}
    /\ indexes = {}
    /\ file \in Files
    /\ env = Configured
    /\ boot = "load"
    /\ client = NULL
    /\ db = NULL
    /\ clients = 0

NextConnect ==
    \/ Load
    \/ \E fail \in BOOLEAN : BootConnect(fail)
    \/ BootCreateIndex(FALSE)
    \/ Read(Reqs)
    \/ \E r \in Reqs : ConnectDone(r, TRUE)

SpecConnect == InitConnect /\ [][NextConnect]_vars

(* ---------------------------- properties -------------------------------- *)
(* The step gives the request in slot r its response. *)
Responds(r) == reqs'[r].pc = "done" /\ reqs'[r] # reqs[r]

(* What the client receives. *)
Response(q) ==
    [status |-> q.status, error |-> q.error, message |-> q.message,
     cookieOp |-> q.cookieOp, cookieValue |-> q.cookieValue,
     authenticated |-> q.authenticated]

IssuedTokens == {i.token : i \in issued}

(* C1: a Login that returns success, for a username and password that      *)
(* match an account, has inserted exactly one session, with revokedAt null *)
(* and that account's id, under the digest of the token it set as cookie;  *)
(* and an Authenticate presenting a token some Login handed out, with no   *)
(* Logout for that token so far, succeeds and attaches that Login's        *)
(* account id and session id to the request.                               *)
C1_LoginThenAuthenticate ==
    [][\A r \in Reqs :
         /\ (reqs'[r].kind = "login" /\ Responds(r) /\ reqs'[r].status = 200) =>
               \E a \in AccountIds :
                  /\ accounts[a].username = reqs[r].username
                  /\ Argon2Verify(accounts[a].passwordHash, reqs[r].password)
                  /\ Len(sessions') = Len(sessions) + 1
                  /\ sessions'[Len(sessions')].revokedAt = NULL
                  /\ sessions'[Len(sessions')].accountId = a
                  /\ sessions'[Len(sessions')].sessionTokenHash
                        = sessionTokenToHash(reqs'[r].cookieValue)
                  /\ reqs'[r].cookieOp = "set"
                  /\ issued' = issued \cup
                        {[token |-> reqs'[r].cookieValue, accountId |-> a,
                          sessionId |-> Len(sessions'),
                          pepper |-> SESSION_PEPPER]}
         /\ (reqs[r].pc = "auth_find" /\ reqs'[r] # reqs[r]
               /\ reqs[r].cookie \in IssuedTokens \ loggedOut) =>
               \E i \in issued :
                  /\ i.token = reqs[r].cookie
                  /\ reqs'[r].pc = HandlerEntry(reqs[r].kind)
                  /\ reqs'[r].adminAccount = i.accountId
                  /\ reqs'[r].adminSession = i.sessionId
      ]_vars

(* A Login has succeeded and a later request with its token has passed     *)
(* Authenticate with that Login's account and session attached.            *)
C1_Witness ==
    \E r \in Reqs, i \in issued :
       /\ reqs[r].pc = "logout_update"
       /\ reqs[r].cookie = i.token
       /\ reqs[r].cookie \notin loggedOut
       /\ reqs[r].adminAccount = i.accountId
       /\ reqs[r].adminSession = i.sessionId
       /\ accounts[i.accountId].username = "bob"

(* C2: once a Logout with a token has succeeded, every session lookup of    *)
(* Authenticate for that token, whatever else has happened since, ends the *)
(* request with 401 unauthorized.                                           *)
C2_RevokedTokenStaysUnauthorized ==
    [][\A r \in Reqs :
         (reqs[r].pc = "auth_find" /\ reqs'[r] # reqs[r]
            /\ reqs[r].cookie \in loggedOut) =>
            /\ reqs'[r].pc = "done"
            /\ reqs'[r].status = 401
            /\ reqs'[r].error = "unauthorized"
            /\ reqs'[r].adminSession = NULL
      ]_vars

(* A request that arrived after the Logout of its token was answered 401,  *)
(* although a second session has been created since.                        *)
C2_Witness ==
    \E r \in Reqs :
       /\ reqs[r].pc = "done" /\ reqs[r].kind = "logout"
       /\ reqs[r].afterLogout
       /\ reqs[r].status = 401
       /\ reqs[r].message = "Invalid or revoked session"
       /\ Len(sessions) = 2

InvalidCredentials ==
    [status |-> 401, error |-> "unauthorized", message |-> "Invalid credentials",
     cookieOp |-> "none", cookieValue |-> NoCookie, authenticated |-> "n/a"]

NoSuchAccount(username) ==
    \A a \in AccountIds : accounts[a].username # username

DisabledAccount(username) ==
    \E a \in AccountIds : accounts[a].username = username /\ accounts[a].disabled

(* C3: Login answers with one and the same response, 401 unauthorized      *)
(* "Invalid credentials" and no cookie, when the username matches no       *)
(* account, when it matches a disabled account, and when the password is   *)
(* wrong for the account found.                                             *)
C3_LoginFailuresIndistinguishable ==
    [][\A r \in Reqs :
         /\ (reqs[r].pc = "login_find" /\ reqs'[r] # reqs[r]
               /\ (NoSuchAccount(reqs[r].username) \/ DisabledAccount(reqs[r].username))) =>
               /\ reqs'[r].pc = "done"
               /\ Response(reqs'[r]) = InvalidCredentials
         /\ (reqs[r].pc = "login_verify" /\ reqs'[r] # reqs[r]
               /\ ~Argon2Verify(accounts[reqs[r].account].passwordHash,
                                reqs[r].password)) =>
               /\ reqs'[r].pc = "done"
               /\ Response(reqs'[r]) = InvalidCredentials
      ]_vars

(* One Login was refused because bob's account was disabled, another       *)
(* because the password was wrong for the account found, and the two       *)
(* responses are equal.                                                     *)
C3_Witness ==
    \E r1, r2 \in Reqs :
       /\ reqs[r1].kind = "login" /\ reqs[r1].pc = "done"
       /\ reqs[r1].username = "bob" /\ reqs[r1].account = NULL
       /\ reqs[r1].status = 401
       /\ reqs[r2].kind = "login" /\ reqs[r2].pc = "done"
       /\ reqs[r2].account # NULL
       /\ reqs[r2].status = 401
       /\ Response(reqs[r1]) = Response(reqs[r2])

(* C5: a successful Login hands out a token no earlier Login handed out,   *)
(* adds one session record and changes none; no two Logins share a token   *)
(* or a session; and a token keeps passing Authenticate, its session       *)
(* active, until a Logout with that very token, whatever Logouts happen    *)
(* with other tokens.                                                       *)
C5_ConcurrentSessions ==
    [][/\ \A r \in Reqs :
            (reqs'[r].kind = "login" /\ Responds(r) /\ reqs'[r].status = 200) =>
               /\ reqs'[r].cookieValue \notin IssuedTokens
               /\ Len(sessions') = Len(sessions) + 1
               /\ SubSeq(sessions', 1, Len(sessions)) = sessions
       /\ \A i, j \in issued' :
            i # j => i.token # j.token /\ i.sessionId # j.sessionId
       /\ \A i \in issued :
            i.token \notin loggedOut' => sessions'[i.sessionId].revokedAt = NULL
       /\ \A r \in Reqs :
            (reqs[r].pc = "auth_find" /\ reqs'[r] # reqs[r]
               /\ reqs[r].cookie \in IssuedTokens \ loggedOut) =>
               reqs'[r].adminSession # NULL
      ]_vars

(* Two Logins of one account; one token has been logged out, the other     *)
(* still has its active session and is reported authenticated.             *)
C5_Witness ==
    \E i, j \in issued, r \in Reqs :
       /\ i # j /\ i.accountId = j.accountId
       /\ i.token \in loggedOut /\ j.token \notin loggedOut
       /\ sessions[i.sessionId].revokedAt # NULL
       /\ sessions[j.sessionId].revokedAt = NULL
       /\ reqs[r].pc = "logout_update" /\ reqs[r].cookie = j.token
       /\ reqs[r].adminSession = j.sessionId

(* C8: a Login answered 400 or 401 and a Logout answered 401 leave the     *)
(* session store, the pending session updates and the account store as     *)
(* they were, in the answering step and in every earlier step of the       *)
(* request, and neither set nor clear the cookie; the 400 is given before  *)
(* any store operation.                                                     *)
C8_FailuresChangeNothing ==
    [][\A r \in Reqs :
         /\ (reqs'[r].kind = "login" /\ Responds(r)
               /\ reqs'[r].status \in {400, 401}) =>
               /\ sessions' = sessions /\ touches' = touches /\ accounts' = accounts
               /\ reqs'[r].cookieOp = "none"
               /\ (reqs'[r].status = 400 => reqs'[r].storeOps = 0)
         /\ (reqs[r].pc \in {"login_find", "login_verify"} /\ reqs'[r] # reqs[r]) =>
               sessions' = sessions /\ touches' = touches /\ accounts' = accounts
         /\ (reqs'[r].kind = "logout" /\ Responds(r) /\ reqs'[r].status = 401) =>
               /\ sessions' = sessions /\ touches' = touches /\ accounts' = accounts
               /\ reqs'[r].cookieOp = "none"
      ]_vars

(* With a session in the store, a Login was answered 400 before any store  *)
(* operation and a Logout with a revoked token was answered 401.           *)
C8_Witness ==
    \E r1, r2 \in Reqs :
       /\ reqs[r1].kind = "login" /\ reqs[r1].pc = "done"
       /\ reqs[r1].status = 400 /\ reqs[r1].storeOps = 0
       /\ reqs[r2].kind = "logout" /\ reqs[r2].pc = "done"
       /\ reqs[r2].status = 401 /\ reqs[r2].cookie \in loggedOut
       /\ Len(sessions) > 0

(* C9: no session record holds a raw token: its sessionTokenHash is a      *)
(* digest, the digest of the token Login handed out for it; and the cookie *)
(* Login sets is that raw token, not a digest.                              *)
C9_OnlyDigestStored ==
    /\ \A s \in SessionIds :
          /\ sessions[s].sessionTokenHash \notin CookieValues
          /\ sessions[s].sessionTokenHash \in Digests
    /\ \A i \in issued :
          /\ i.token \in Tokens
          /\ sessions[i.sessionId].sessionTokenHash = sessionTokenToHash(i.token)
          /\ sessions[i.sessionId].sessionTokenHash # i.token
    /\ \A r \in Reqs :
          (reqs[r].kind = "login" /\ reqs[r].pc = "done" /\ reqs[r].status = 200) =>
             /\ reqs[r].cookieOp = "set"
             /\ reqs[r].cookieValue \in Tokens
             /\ reqs[r].cookieValue \notin Digests
             /\ \E s \in SessionIds :
                   sessions[s].sessionTokenHash = sessionTokenToHash(reqs[r].cookieValue)

(* A Login has succeeded: its cookie and its session record are there.     *)
C9_Witness ==
    \E r \in Reqs, i \in issued :
       /\ reqs[r].kind = "login" /\ reqs[r].pc = "done" /\ reqs[r].status = 200
       /\ reqs[r].cookieValue = i.token
       /\ sessions[i.sessionId].sessionTokenHash = sessionTokenToHash(i.token)

(* C10: no two session records, active or revoked, have the same           *)
(* sessionTokenHash; when the digest of the token a Login drew is that of  *)
(* an existing session, the insert is rejected and the Login ends at once  *)
(* in 500 internal_error, with no second insert, no cookie and the session *)
(* store unchanged.                                                         *)
C10_SessionHashUnique ==
    [][/\ \A s1, s2 \in 1..Len(sessions') :
            s1 # s2 => sessions'[s1].sessionTokenHash # sessions'[s2].sessionTokenHash
       /\ \A r \in Reqs :
            (reqs[r].pc = "login_insert" /\ reqs'[r] # reqs[r]
               /\ \E s \in SessionIds :
                     sessions[s].sessionTokenHash
                        = sessionTokenToHash(reqs[r].sessionToken)) =>
               /\ reqs'[r].pc = "done"
               /\ reqs'[r].status = 500 /\ reqs'[r].error = "internal_error"
               /\ reqs'[r].cookieOp = "none"
               /\ reqs'[r].storeOps = 2
               /\ sessions' = sessions
               /\ issued' = issued
      ]_vars

(* A Login drew the token of a session that exists, revoked by now, and    *)
(* was answered 500.                                                        *)
C10_Witness ==
    \E r \in Reqs, s \in SessionIds :
       /\ reqs[r].kind = "login" /\ reqs[r].pc = "done"
       /\ reqs[r].status = 500 /\ reqs[r].message = DuplicateKey
       /\ sessions[s].revokedAt # NULL
       /\ Len(sessions) = 1

(* C4: no step removes a session record or replaces it by another, and no  *)
(* step takes a revokedAt that is set back to null, while Logins, Logouts, *)
(* Authenticate's lookups and lastSeenAt updates and Introspects           *)
(* interleave and the clock advances.                                       *)
C4_RevocationIsFinal ==
    [][/\ Len(sessions') >= Len(sessions)
       /\ \A s \in SessionIds :
            /\ sessions'[s].sessionTokenHash = sessions[s].sessionTokenHash
            /\ sessions'[s].accountId = sessions[s].accountId
            /\ (sessions[s].revokedAt # NULL => sessions'[s].revokedAt # NULL)
      ]_vars

(* A session was created, seen again later and revoked, a lastSeenAt       *)
(* update for it is still in flight, and a second session is active.       *)
C4_Witness ==
    \E s1, s2 \in SessionIds :
       /\ sessions[s1].revokedAt # NULL
       /\ sessions[s1].lastSeenAt = MaxTime
       /\ \E t \in touches : t.sessionId = s1
       /\ sessions[s2].revokedAt = NULL

(* C6: the entity store changes only in a step of a POST or PUT request    *)
(* to which Authenticate attached the session of the cookie it presented,  *)
(* a cookie some Login handed out; no handler segment runs for a request   *)
(* with nothing attached; and a request that presents no cookie, or whose  *)
(* lookup finds no active session for its cookie, ends there with 401 and  *)
(* the entity store unchanged.                                              *)
C6_WritesNeedSession ==
    [][/\ entities' # entities =>
            \E r \in Reqs :
               /\ reqs[r].pc \in {"post_insert", "put_update"}
               /\ reqs'[r] # reqs[r]
               /\ reqs[r].cookie \in IssuedTokens
               /\ reqs[r].adminSession \in SessionIds
               /\ sessions[reqs[r].adminSession].sessionTokenHash
                     = sessionTokenToHash(reqs[r].cookie)
       /\ \A r \in Reqs :
            reqs'[r].pc \in {"post_find", "post_insert", "put_update"} =>
               reqs'[r].adminSession # NULL
       /\ \A r \in Reqs :
            (/\ reqs'[r].kind \in {"post", "put"} /\ reqs'[r] # reqs[r]
             /\ \/ Free(r) /\ reqs'[r].cookie = NoCookie
                \/ /\ reqs[r].pc = "auth_find"
                   /\ ~\E s \in SessionIds :
                         /\ sessions[s].sessionTokenHash
                               = sessionTokenToHash(reqs[r].cookie)
                         /\ sessions[s].revokedAt = NULL) =>
               /\ reqs'[r].pc = "done"
               /\ reqs'[r].status = 401
               /\ entities' = entities
      ]_vars

(* An entity has been created by an authenticated POST, and a PUT with     *)
(* the token of a revoked session was answered 401.                         *)
C6_Witness ==
    \E r1, r2 \in Reqs :
       /\ reqs[r1].kind = "post" /\ reqs[r1].pc = "done" /\ reqs[r1].status = 201
       /\ entities # {}
       /\ reqs[r2].kind = "put" /\ reqs[r2].pc = "done" /\ reqs[r2].status = 401
       /\ reqs[r2].cookie \in loggedOut

NotAuthenticated ==
    [status |-> 200, error |-> "", message |-> "",
     cookieOp |-> "none", cookieValue |-> NoCookie, authenticated |-> "false"]

(* C7: Introspect always answers 200 with authenticated true or false and  *)
(* no error; true only when the store holds an active session for the      *)
(* cookie; false, with one and the same response, when the cookie is       *)
(* missing, malformed, unknown or revoked and when the lookup fails.       *)
C7_IntrospectNeverFails ==
    [][\A r \in Reqs :
         (reqs'[r].kind = "me" /\ Responds(r)) =>
            /\ reqs'[r].status = 200 /\ reqs'[r].error = ""
            /\ reqs'[r].authenticated \in {"true", "false"}
            /\ reqs'[r].authenticated = "true" =>
                  \E s \in SessionIds :
                     /\ sessions[s].sessionTokenHash
                           = sessionTokenToHash(reqs'[r].cookie)
                     /\ sessions[s].revokedAt = NULL
            /\ (\/ reqs'[r].cookie \in {NoCookie, Malformed}
                \/ reqs'[r].cookie \notin IssuedTokens
                \/ reqs'[r].cookie \in loggedOut
                \/ reqs'[r].storeFailed) =>
                  Response(reqs'[r]) = NotAuthenticated
            /\ reqs'[r].authenticated = "false" =>
                  Response(reqs'[r]) = NotAuthenticated
      ]_vars

(* The lookup failed for the token of an active session, a malformed       *)
(* cookie was presented, and both got the same answer.                      *)
C7_Witness ==
    \E r1, r2 \in Reqs, s \in SessionIds :
       /\ reqs[r1].kind = "me" /\ reqs[r1].pc = "done" /\ reqs[r1].storeFailed
       /\ sessions[s].sessionTokenHash = sessionTokenToHash(reqs[r1].cookie)
       /\ sessions[s].revokedAt = NULL
       /\ reqs[r2].kind = "me" /\ reqs[r2].pc = "done"
       /\ reqs[r2].cookie = Malformed
       /\ Response(reqs[r1]) = Response(reqs[r2])
       /\ Response(reqs[r1]) = NotAuthenticated

(* C11: a session lookup of Authenticate that finds an active session       *)
(* issues the lastSeenAt update and hands the request to its handler in    *)
(* the same step, before the update has an outcome; the step in which the  *)
(* update is applied or rejected, before or after the response, changes no *)
(* request and no response, and a rejected update changes no session; a    *)
(* 401 of Authenticate comes only from a missing cookie or a lookup that   *)
(* found no active session, a 500 only from a rejected lookup or           *)
(* revocation.                                                              *)
C11_TouchFailureInvisible ==
    [][/\ \A r \in Reqs :
            (reqs[r].pc = "auth_find" /\ reqs'[r] # reqs[r]
               /\ ~reqs'[r].storeFailed
               /\ FindActiveSession(sessionTokenToHash(reqs[r].cookie)) # NULL) =>
               /\ reqs'[r].pc = HandlerEntry(reqs[r].kind)
               /\ reqs'[r].adminSession
                     = FindActiveSession(sessionTokenToHash(reqs[r].cookie))
               /\ \E t \in touches' : t.sessionId = reqs'[r].adminSession
       /\ (touches' # touches /\ touches' \subseteq touches) =>
               /\ reqs' = reqs
               /\ (touchFailed' # touchFailed => sessions' = sessions)
       /\ \A r \in Reqs :
            (reqs'[r].kind = "logout" /\ Responds(r)) =>
               /\ reqs'[r].status = 401 =>
                     \/ reqs'[r].cookie = NoCookie
                     \/ /\ reqs[r].pc = "auth_find"
                        /\ FindActiveSession(sessionTokenToHash(reqs[r].cookie)) = NULL
               /\ reqs'[r].status = 500 => reqs'[r].storeFailed
               /\ reqs'[r].status \in {200, 401, 500}
      ]_vars

(* A request passed Authenticate, the lastSeenAt update it issued was      *)
(* rejected, and the request went on to its handler and was answered ok;   *)
(* the update of another request is still in flight after its response.    *)
C11_Witness ==
    \E r1, r2 \in Reqs, s \in SessionIds :
       /\ r1 # r2
       /\ reqs[r1].kind = "logout" /\ reqs[r1].pc = "done" /\ reqs[r1].status = 200
       /\ sessions[s].sessionTokenHash = sessionTokenToHash(reqs[r1].cookie)
       /\ \E t \in touchFailed : t.sessionId = s
       /\ reqs[r2].kind = "logout" /\ reqs[r2].pc = "done" /\ reqs[r2].status = 200
       /\ \E t \in touches : sessions[t.sessionId].sessionTokenHash
                                  = sessionTokenToHash(reqs[r2].cookie)

(* C12: when the account lookup or the session insert of Login, or the     *)
(* session lookup of Authenticate, is rejected by the store, the request   *)
(* ends in that step with 500 internal_error: no cookie is set or cleared, *)
(* nothing is attached to the request, its handler does not run, no        *)
(* lastSeenAt update is issued and no store changes.                        *)
C12_StoreFailureIs500 ==
    [][\A r \in Reqs :
         (reqs[r].pc \in {"login_find", "login_insert", "auth_find"}
            /\ reqs'[r] # reqs[r] /\ reqs'[r].storeFailed) =>
            /\ reqs'[r].pc = "done"
            /\ reqs'[r].status = 500
            /\ reqs'[r].error = "internal_error"
            /\ reqs'[r].cookieOp = "none"
            /\ reqs'[r].adminSession = NULL /\ reqs'[r].adminAccount = NULL
            /\ reqs'[r].storeOps = reqs[r].storeOps + 1
            /\ sessions' = sessions /\ touches' = touches
            /\ entities' = entities /\ issued' = issued
      ]_vars

(* With an active session in the store, the lookup of an Authenticate      *)
(* presenting its token was rejected and answered 500, and the insert of   *)
(* a Login with valid credentials was rejected and answered 500.           *)
C12_Witness ==
    \E r1, r2 \in Reqs, s \in SessionIds :
       /\ reqs[r1].kind = "logout" /\ reqs[r1].pc = "done"
       /\ reqs[r1].storeFailed /\ reqs[r1].status = 500 /\ reqs[r1].storeOps = 1
       /\ sessions[s].sessionTokenHash = sessionTokenToHash(reqs[r1].cookie)
       /\ sessions[s].revokedAt = NULL
       /\ reqs[r2].kind = "login" /\ reqs[r2].pc = "done"
       /\ reqs[r2].storeFailed /\ reqs[r2].status = 500 /\ reqs[r2].storeOps = 2
       /\ Len(sessions) = 1

(* C13: a request is received only by a process that is listening; the     *)
(* process listens only with MONGODB_URI, MONGODB_DB and SESSION_PEPPER    *)
(* all set and the unique indexes on accounts.username and                 *)
(* sessions.sessionTokenHash created; with one of the variables missing    *)
(* the first step of the process exits, a rejected connect or createIndex  *)
(* exits, and a process that has exited stays so and serves nothing.       *)
C13_ListenAfterIndexes ==
    [][/\ (\E r \in Reqs : reqs'[r] # IdleReq) => boot' = "listening"
       /\ boot' = "listening" =>
             /\ \A v \in {"MONGODB_URI", "MONGODB_DB", "SESSION_PEPPER"} : env'[v] # Unset
             /\ {"accounts.username", "sessions.sessionTokenHash"} \subseteq indexes'
             /\ db' # NULL
       /\ (boot = "load" /\ boot' # boot
              /\ \E v \in {"MONGODB_URI", "MONGODB_DB", "SESSION_PEPPER"} : env[v] = Unset) =>
             boot' = "exited"
       /\ (boot = "connect" /\ boot' # boot /\ db' = NULL) => boot' = "exited"
       /\ (boot \in {"accounts.username", "sessions.sessionTokenHash"}
              /\ boot' # boot /\ boot \notin indexes') =>
             boot' = "exited"
       /\ boot = "exited" => (boot' = "exited" /\ reqs' = reqs)
       /\ boot' = "exited" => \A r \in Reqs : reqs'[r] = IdleReq
      ]_vars

(* The process is listening, with its two unique indexes, and a Login has  *)
(* been served.                                                             *)
C13_Witness ==
    /\ boot = "listening"
    /\ {"accounts.username", "sessions.sessionTokenHash"} \subseteq indexes
    /\ \E r \in Reqs : reqs[r].kind = "login" /\ reqs[r].pc = "done"
                          /\ reqs[r].status = 200

(* the sessions that are active and were created, for this token, under    *)
(* the secret the process runs with                                         *)
LiveUnderSecret(token) ==
    {i.sessionId : i \in {j \in issued :
         /\ j.token = token /\ j.pepper = SESSION_PEPPER
         /\ sessions[j.sessionId].revokedAt = NULL}}

(* C14: the digest stored for a session is a function of the token handed  *)
(* out and the secret of that time: the same token under the same secret   *)
(* is the same digest (a second Login drawing it is rejected, a lookup     *)
(* presenting it finds the session), the same token under another secret   *)
(* is another digest, and Authenticate and Introspect accept a token only  *)
(* for an active session created under the secret the process runs with.   *)
C14_DigestKeyedBySecret ==
    [][/\ \A i \in issued' :
            sessions'[i.sessionId].sessionTokenHash = HmacSha256Hex(i.pepper, i.token)
       /\ \A i, j \in issued' :
            /\ (i.token = j.token /\ i.pepper = j.pepper) => i = j
            /\ (i.token = j.token /\ i.pepper # j.pepper) =>
                  sessions'[i.sessionId].sessionTokenHash
                     # sessions'[j.sessionId].sessionTokenHash
       /\ \A r \in Reqs :
            (reqs[r].pc = "auth_find" /\ reqs'[r] # reqs[r] /\ boot' = "listening") =>
               IF LiveUnderSecret(reqs[r].cookie) = {}
               THEN reqs'[r].pc = "done" /\ reqs'[r].status = 401
               ELSE /\ reqs'[r].pc = HandlerEntry(reqs[r].kind)
                    /\ reqs'[r].adminSession \in LiveUnderSecret(reqs[r].cookie)
       /\ \A r \in Reqs :
            (reqs[r].pc = "me_find" /\ reqs'[r] # reqs[r] /\ boot' = "listening") =>
               reqs'[r].authenticated =
                  IF LiveUnderSecret(reqs[r].cookie) = {} THEN "false" ELSE "true"
      ]_vars

(* The process runs under another secret than the one an active session    *)
(* was created under; its token was presented and answered 401, and the    *)
(* same token has been handed out again under the new secret.              *)
C14_Witness ==
    \E r \in Reqs, i, j \in issued :
       /\ boot = "listening"
       /\ i.pepper # SESSION_PEPPER /\ j.pepper = SESSION_PEPPER
       /\ i.token = j.token
       /\ sessions[i.sessionId].revokedAt = NULL
       /\ reqs[r].kind = "logout" /\ reqs[r].pc = "done"
       /\ reqs[r].cookie = i.token
       /\ reqs[r].status = 401 /\ reqs[r].message = "Invalid or revoked session"

(* the elements of a sequence *)
Range(seq) == {seq[i] : i \in 1..Len(seq)}

(* C15: every list a read endpoint returns, in every file, holds exactly   *)
(* the documents of the store its query matches, each once (the hoisted    *)
(* country or city counted with the rest), ordered by name ascending and,  *)
(* among equal names, by key ascending.                                     *)
C15_ReadsSortedByNameThenKey ==
    \A r \in Reqs :
       (reqs[r].kind = "read" /\ reqs[r].pc = "done" /\ reqs[r].status = 200) =>
          LET q == reqs[r]
              returned == IF q.route \in {"/pages", "/pages/:id"}
                          THEN q.docs ELSE q.lead \o q.docs
          IN  /\ Range(returned) = Matching(q.route, q.param)
              /\ Len(returned) = Cardinality(Matching(q.route, q.param))
              /\ Ordered(q.docs, <<"name", "key">>)

(* C16: the step in which a Logout succeeds sets revokedAt, to the time of *)
(* that step, on the session whose sessionTokenHash is the digest of the   *)
(* cookie the request presents, which is the session Authenticate attached *)
(* to it; it changes no other field of that session and nothing of any     *)
(* other session, of the same account or of another.                        *)
C16_LogoutRevokesOnlyItsSession ==
    [][\A r \in Reqs :
         (reqs[r].pc = "logout_update" /\ Responds(r) /\ reqs'[r].status = 200) =>
            /\ Len(sessions') = Len(sessions)
            /\ \A s \in SessionIds :
                  IF sessions[s].sessionTokenHash = sessionTokenToHash(reqs[r].cookie)
                  THEN /\ sessions'[s] = [sessions[s] EXCEPT !.revokedAt = now]
                       /\ s = reqs[r].adminSession
                  ELSE sessions'[s] = sessions[s]
            /\ sessions'[reqs[r].adminSession].revokedAt # NULL
      ]_vars

(* alice and bob each have a session; a Logout with the token of one has   *)
(* succeeded and revoked it, the session of the other is active.            *)
C16_Witness ==
    \E r \in Reqs, s1, s2 \in SessionIds :
       /\ reqs[r].kind = "logout" /\ reqs[r].pc = "done" /\ reqs[r].status = 200
       /\ sessions[s1].sessionTokenHash = sessionTokenToHash(reqs[r].cookie)
       /\ sessions[s1].revokedAt # NULL
       /\ sessions[s2].accountId # sessions[s1].accountId
       /\ sessions[s2].revokedAt = NULL

(* C17: with the unique index on (list, key) and the store answering, the  *)
(* entity store never holds two documents with one (list, key); an insert  *)
(* of POST /entities/:list/:key that finds the (list, key) taken, also     *)
(* after its own pre-check found it free, is answered 409 conflict and     *)
(* stores nothing; a 201 adds one document for a (list, key) that had      *)
(* none, so one POST at most gets it; no POST is answered 500.             *)
C17_ConcurrentPostOneWins ==
    [][/\ \A d, e \in entities' : d.ent = e.ent => d = e
       /\ \A r \in Reqs :
            (reqs[r].pc = "post_insert" /\ reqs'[r] # reqs[r]) =>
               IF \E d \in entities : d.ent = reqs[r].ent
               THEN /\ reqs'[r].pc = "done"
                    /\ reqs'[r].status = 409 /\ reqs'[r].error = "conflict"
                    /\ entities' = entities
               ELSE /\ reqs'[r].pc = "done"
                    /\ reqs'[r].status = 201
                    /\ \E d \in entities' :
                          /\ d.ent = reqs[r].ent /\ d.body = reqs[r].body
                          /\ entities' = entities \cup {d}
       /\ \A r \in Reqs :
            (reqs'[r].kind = "post" /\ Responds(r)) =>
               /\ reqs'[r].status \in {201, 401, 409}
               /\ reqs'[r].status = 201 =>
                     /\ ~\E d \in entities : d.ent = reqs'[r].ent
                     /\ reqs[r].pc = "post_insert"
      ]_vars

(* Two POSTs for one (list, key) ran together: both passed the pre-check,  *)
(* one was answered 201, the other was rejected by the index and answered  *)
(* 409, and the store holds one document.                                   *)
C17_Witness ==
    \E r1, r2 \in Reqs :
       /\ reqs[r1].kind = "post" /\ reqs[r1].pc = "done" /\ reqs[r1].status = 201
       /\ reqs[r2].kind = "post" /\ reqs[r2].pc = "done" /\ reqs[r2].status = 409
       /\ reqs[r2].storeOps = 3
       /\ reqs[r1].ent = reqs[r2].ent
       /\ Cardinality(entities) = 1

(* C18: a process makes at most one MongoClient, however the calls of      *)
(* connectToMongo interleave, and all the handles connectToMongo has       *)
(* returned are the same.                                                   *)
C18_OneClientOneHandle ==
    /\ clients <= 1
    /\ \A r1, r2 \in Reqs :
          (reqs[r1].handle # NULL /\ reqs[r2].handle # NULL) =>
             reqs[r1].handle = reqs[r2].handle

(* C19 as claimed: of the Logouts that presented one token, at most one    *)
(* has been answered { ok: true }.                                          *)
C19_AtMostOneLogoutOk ==
    \A r1, r2 \in Reqs :
       (/\ reqs[r1].kind = "logout" /\ reqs[r1].pc = "done" /\ reqs[r1].status = 200
        /\ reqs[r2].kind = "logout" /\ reqs[r2].pc = "done" /\ reqs[r2].status = 200
        /\ reqs[r1].cookie = reqs[r2].cookie) => r1 = r2

(* the session of a token has been revoked *)
RevokedInStore(token) ==
    \E s \in SessionIds :
       /\ sessions[s].sessionTokenHash = sessionTokenToHash(token)
       /\ sessions[s].revokedAt # NULL

(* C19 amended: a Logout whose session lookup runs when the session of its *)
(* token is revoked is answered 401; a Logout whose lookup ran before that *)
(* goes on to its update and is answered { ok: true } with the cookie      *)
(* cleared, also when a concurrent Logout has revoked the session in       *)
(* between; so every Logout answered ok arrived before the first ok for    *)
(* its token was given.                                                     *)
C19_LogoutOkIfLookupBeforeRevocation ==
    [][\A r \in Reqs :
         /\ (reqs[r].kind = "logout" /\ reqs[r].pc = "auth_find" /\ reqs'[r] # reqs[r]) =>
               IF RevokedInStore(reqs[r].cookie)
               THEN reqs'[r].pc = "done" /\ reqs'[r].status = 401
               ELSE reqs[r].cookie \in IssuedTokens => reqs'[r].pc = "logout_update"
         /\ (reqs[r].pc = "logout_update" /\ reqs'[r] # reqs[r]) =>
               /\ reqs'[r].pc = "done"
               /\ reqs'[r].status = 200 /\ reqs'[r].cookieOp = "clear"
               /\ ~reqs'[r].afterLogout
               /\ \E s \in SessionIds :
                     /\ sessions'[s].sessionTokenHash = sessionTokenToHash(reqs[r].cookie)
                     /\ sessions'[s].revokedAt # NULL
      ]_vars

(* Two Logouts with one token overlapped and both were answered ok; the    *)
(* session is revoked.                                                      *)
C19_Witness ==
    \E r1, r2 \in Reqs :
       /\ r1 # r2
       /\ reqs[r1].kind = "logout" /\ reqs[r1].pc = "done" /\ reqs[r1].status = 200
       /\ reqs[r2].kind = "logout" /\ reqs[r2].pc = "done" /\ reqs[r2].status = 200
       /\ reqs[r1].cookie = reqs[r2].cookie
       /\ ~reqs[r1].afterLogout /\ ~reqs[r2].afterLogout
       /\ RevokedInStore(reqs[r1].cookie)

C21_NoWriteAfterLogout ==
    \A r \in Reqs : ~reqs[r].wroteAfterLogout

(* C21 amended: a POST or PUT that arrives after a Logout with its token   *)
(* was answered ok never leaves Authenticate but with 401, and writes      *)
(* nothing; an entity write applied after the Logout is that of a request  *)
(* which had arrived, and to which Authenticate had attached the session,  *)
(* before the Logout was answered.                                          *)
C21_WritesOnlyIfAuthenticatedBeforeLogout ==
    [][/\ \A r \in Reqs :
            (reqs'[r].kind \in {"post", "put"} /\ reqs'[r].afterLogout) =>
               /\ reqs'[r].pc \in {"auth_find", "done"}
               /\ reqs'[r].pc = "done" => reqs'[r].status = 401
               /\ reqs'[r] # reqs[r] => entities' = entities
       /\ entities' # entities =>
            \E r \in Reqs :
               /\ reqs[r].pc \in {"post_insert", "put_update"}
               /\ reqs'[r] # reqs[r]
               /\ ~reqs[r].afterLogout
               /\ reqs[r].adminSession \in SessionIds
               /\ reqs'[r].wroteAfterLogout = (reqs[r].cookie \in loggedOut)
      ]_vars

(* A POST passed Authenticate, a Logout with its token was then answered   *)
(* ok, and the insert of the POST was applied after that.                   *)
C21_Witness ==
    \E r1, r2 \in Reqs :
       /\ reqs[r1].kind = "post" /\ reqs[r1].pc = "done" /\ reqs[r1].status = 201
       /\ reqs[r1].wroteAfterLogout /\ ~reqs[r1].afterLogout
       /\ reqs[r2].kind = "logout" /\ reqs[r2].pc = "done" /\ reqs[r2].status = 200
       /\ reqs[r2].cookie = reqs[r1].cookie
       /\ entities # {}

(* the session store holds an active session under the digest of cookie *)
ActiveSessionFor(cookie) ==
    \E i \in SessionIds :
       /\ sessions[i].sessionTokenHash = HmacSha256Hex(SESSION_PEPPER, cookie)
       /\ sessions[i].revokedAt = NULL

(* C22: Authenticate and Introspect succeed exactly when the session store *)
(* holds a session with the token's digest and revokedAt null, whatever    *)
(* the disabled flag of the owning account; a Login for a disabled account *)
(* is refused with Invalid credentials and creates no session; and         *)
(* changing an account's disabled flag touches no session and no request.  *)
C22_DisabledBlocksLoginNotSessions ==
    [][/\ \A r \in Reqs :
            /\ (reqs[r].pc = "auth_find" /\ reqs'[r] # reqs[r]) =>
                  IF ActiveSessionFor(reqs[r].cookie)
                  THEN /\ reqs'[r].pc # "done"
                       /\ reqs'[r].adminSession \in SessionIds
                       /\ sessions[reqs'[r].adminSession].sessionTokenHash =
                             HmacSha256Hex(SESSION_PEPPER, reqs[r].cookie)
                       /\ reqs'[r].adminAccount =
                             sessions[reqs'[r].adminSession].accountId
                  ELSE /\ reqs'[r].pc = "done"
                       /\ reqs'[r].status = 401
            /\ (reqs[r].pc = "me_find" /\ reqs'[r] # reqs[r]) =>
                  /\ reqs'[r].pc = "done"
                  /\ reqs'[r].status = 200
                  /\ reqs'[r].authenticated =
                        IF ActiveSessionFor(reqs[r].cookie) THEN "true" ELSE "false"
            /\ (reqs[r].pc = "login_find" /\ reqs'[r] # reqs[r]
                  /\ DisabledAccount(reqs[r].username)) =>
                  /\ reqs'[r].pc = "done"
                  /\ Response(reqs'[r]) = InvalidCredentials
                  /\ sessions' = sessions
       /\ accounts' # accounts => (sessions' = sessions /\ reqs' = reqs)
      ]_vars

(* alice logged in and was then disabled: a Login for alice was refused,   *)
(* and a request with the token of her session, which is still active,     *)
(* passed Authenticate while the account was disabled.                      *)
C22_Witness ==
    \E r1, r2 \in Reqs :
       /\ reqs[r1].pc = "logout_update"
       /\ reqs[r1].accountDisabled
       /\ accounts[reqs[r1].adminAccount].disabled
       /\ accounts[reqs[r1].adminAccount].username = "alice"
       /\ sessions[reqs[r1].adminSession].revokedAt = NULL
       /\ reqs[r2].kind = "login" /\ reqs[r2].pc = "done"
       /\ reqs[r2].username = "alice"
       /\ reqs[r2].account = NULL
       /\ Response(reqs[r2]) = InvalidCredentials

====
